---- MODULE Spec2Model ----
(***************************************************************************)
(* A model of tmuxtool (src/tmuxtool/tmuxtool.py).                         *)
(*                                                                         *)
(* Two specifications share the module:                                    *)
(*   Spec     the MultiPaneSession handle driving one tmux session;        *)
(*   SpecCli  list_tmux, list_all_sessions and the commands ls / list and  *)
(*            attach, run against a set of tmux servers.                   *)
(* tmux itself is modelled by the effect of each sub-command the code      *)
(* issues on the part of the server state that the code later reads back.  *)
(***************************************************************************)
EXTENDS Integers, Sequences, FiniteSets, TLC

VARIABLES
    \* ---- the tmux session named session_name on server server_name ----
    session_exists,   \* has-session -t session_name succeeds
    windows,          \* the session's windows in index order
    active,           \* index (in windows) of the session's current window
    nextWindowId,     \* server-wide counter behind #{window_id}
    nextPaneId,       \* server-wide counter behind #{pane_id}
    \* ---- the MultiPaneSession object ----
    layout,           \* self.layout
    current_window,   \* self.current_window
    pane_count,       \* self.pane_count
    pc,               \* position of the caller / of add_pane
    call,             \* arguments of the add_pane call in progress
    ret,              \* value returned by the last completed call
    exc,              \* exception raised by the last completed call
    \* ---- history of the run (read by the properties only) ----
    origin,           \* how the constructor obtained the session
    history,          \* the public calls made since construction
    streak,           \* add_pane calls in a row on a window that began with its placeholder
    killed,           \* provenance of the processes killed by add_pane's respawn-pane -k
    \* ---- the command line tools (SpecCli) ----
    servers,          \* server name -> "down" or its sessions in listing order
    cpc,              \* position of the command in progress
    cmd,              \* the invocation: command name and its options
    todo,             \* servers still to be visited by the command's loop
    gen,              \* a list_tmux generator obtained by a direct call
    tmux_calls,       \* list-sessions invocations made, in order
    printed,          \* (server, line) pairs written by output()
    reported,         \* commands written by eprint("attaching:", ...)
    executed,         \* commands handed to os.system
    exit_status       \* exit status of the finished command

tmuxVars   == <<session_exists, windows, active, nextWindowId, nextPaneId>>
objVars    == <<layout, current_window, pane_count, pc, call, ret, exc>>
ghostVars  == <<origin, history, streak, killed>>
cliVars    == <<servers, cpc, cmd, todo, gen, tmux_calls, printed, reported,
                executed, exit_status>>
vars       == <<tmuxVars, objVars, ghostVars, cliVars>>

(***************************************************************************)
(* Bounds and input domains                                                *)
(***************************************************************************)
MaxOps == 3          \* public calls made on one handle

None == "None"

\* add_pane(*command): the empty tuple and a command
Commands == {<<>>, <<"echo", "hi">>}
\* add_pane(title=...)
Titles == {None, "db1"}
\* add_pane(window=...), new_window(name)
WindowNames == {"a", "b"}
\* __init__(layout=...), apply_layout(layout)
Layouts == {"tiled", "main-vertical"}

Placeholder == <<"sleep", "infinity">>

WinId(n)  == "@" \o ToString(n)
PaneId(n) == "%" \o ToString(n)

(***************************************************************************)
(* tmux: the session's windows and panes                                   *)
(***************************************************************************)
\* A pane: its id, the command it runs, its title, and who started the command
\* ("pre": it ran before the handle was constructed; "placeholder": the sleep
\* infinity of __init__ / new_window; "add_pane": a command given to add_pane).
Pane(id, command, by) == [id |-> id, command |-> command, title |-> "", by |-> by]

\* A window: id, name, panes in index order (pane index 0 is panes[1]), the
\* index of its active pane, and the layout last applied to it.
Window(id, name, panes, ap) ==
    [id |-> id, name |-> name, panes |-> panes, activePane |-> ap, layout |-> "default"]

\* new-session -d -s S sleep infinity / new-window -n name -d sleep infinity:
\* one window holding one pane that runs the placeholder.
PlaceholderWindow(wid, pid, name) ==
    Window(WinId(wid), name, <<Pane(PaneId(pid), Placeholder, "placeholder")>>, 1)

\* Sessions that may already exist under session_name when the handle is
\* constructed: one or two windows, each of one or two panes running commands
\* of somebody else.
PreWindow(wid, pid, name, n, ap) ==
    Window(WinId(wid), name, [i \in 1..n |-> Pane(PaneId(pid + i - 1), <<"zsh">>, "pre")], ap)

PreSessions ==
    {<<PreWindow(0, 0, nm, n, ap)>> : nm \in {"a", "zsh"}, n \in 1..2, ap \in {1}}
    \cup {<<PreWindow(0, 0, "zsh", 1, 1), PreWindow(1, 1, nm, n, n)>> :
            nm \in {"a", "b"}, n \in 1..2}

PaneTotal(ws) ==
    LET RECURSIVE Sum(_)
        Sum(i) == IF i = 0 THEN 0 ELSE Len(ws[i].panes) + Sum(i - 1)
    IN Sum(Len(ws))

\* target-window resolution of "session:target": a window id (@n) names one
\* window; a name must match exactly one window, otherwise the command fails.
Resolve(ws, target) == {i \in 1..Len(ws) : ws[i].id = target \/ ws[i].name = target}
Resolves(ws, target) == Cardinality(Resolve(ws, target)) = 1
TheWindow(ws, target) == CHOOSE i \in Resolve(ws, target) : TRUE

\* list-windows -t S -F "#{window_name}", split on newlines
WindowNameList(ws) == {ws[i].name : i \in 1..Len(ws)}


PlaceholderOnly(w) == Len(w.panes) = 1 /\ w.panes[1].by = "placeholder"

\* new-window -t S -n name -d ... sleep infinity: a window is appended, the
\* session's current window stays (-d).
NewWindowAdded(ws, wid, pid, name) == Append(ws, PlaceholderWindow(wid, pid, name))

\* respawn-pane -t S:w.0 -k command: pane index 0 of the window keeps its id
\* and runs the command; whatever ran there is killed.
Respawned(ws, i, command) ==
    [ws EXCEPT ![i].panes[1].command = command, ![i].panes[1].by = "add_pane"]

\* split-window -t S:w -d -P -F "#{pane_id}" command: the new pane is placed
\* right after the window's active pane, which stays active (-d).
SplitAt(panes, ap, p) ==
    SubSeq(panes, 1, ap) \o <<p>> \o SubSeq(panes, ap + 1, Len(panes))
Split(ws, i, pid, command) ==
    [ws EXCEPT ![i].panes = SplitAt(@, ws[i].activePane, Pane(PaneId(pid), command, "add_pane"))]

\* select-pane -t pane_id -T title
Titled(ws, pid, title) ==
    [i \in 1..Len(ws) |->
        [ws[i] EXCEPT !.panes =
            [j \in 1..Len(@) |-> IF @[j].id = pid THEN [@[j] EXCEPT !.title = title] ELSE @[j]]]]

\* select-layout -t S:w layout
LaidOut(ws, i, lay) == [ws EXCEPT ![i].layout = lay]

(***************************************************************************)
(* MultiPaneSession                                                        *)
(***************************************************************************)
NoCall == [command |-> <<>>, title |-> None, window |-> None]

\* add_pane, line 173: the first pane of the window respawns, later ones split
FirstPaneAlwaysSplits(count) == FALSE
FirstPane(count) == count = 0

\* add_pane, line 202
PaneCountKept(count) == count
PaneCountAfterAdd(count) == count + 1

\* apply_layout, lines 281-290: select-layout's ErrorReturnCode is caught and
\* logged, so the method returns whether or not tmux succeeded.
LayoutErrorPropagates(tmuxOk) == IF tmuxOk THEN "returned" ELSE "ErrorReturnCode"
apply_layout_outcome(tmuxOk) == "returned"

\* new_window, line 268
PaneCountAfterNewWindow(count) == 0

\* __init__, lines 79-112: what becomes of the session.  kill-session removes
\* an existing session (its failure is ignored); has-session then decides
\* between reusing the session and new-session.
SessionKept(pre_exists, force_new) == pre_exists /\ ~force_new

__init__(force_new, lay) ==
    /\ pc = "new"
    /\ layout' = lay
    /\ pane_count' = 0
    /\ IF SessionKept(session_exists, force_new)
         THEN /\ UNCHANGED <<windows, active, nextWindowId, nextPaneId>>
              /\ origin' = "reused"
         ELSE /\ windows' = <<PlaceholderWindow(nextWindowId, nextPaneId, "sleep")>>
              /\ active' = 1
              /\ nextWindowId' = nextWindowId + 1
              /\ nextPaneId' = nextPaneId + 1
              /\ origin' = IF session_exists THEN "recreated" ELSE "created"
    /\ session_exists' = TRUE
    \* _get_current_window: display-message -t S -p "#{window_id}"
    /\ current_window' = windows'[active'].id
    /\ pc' = "idle"
    /\ streak' = IF PlaceholderOnly(windows'[active']) THEN 0 ELSE -1
    /\ UNCHANGED <<call, ret, exc, history, killed, cliVars>>

\* new_window(name), lines 243-270
new_window(name) ==
    /\ pc = "idle"
    /\ Len(history) < MaxOps
    /\ windows' = NewWindowAdded(windows, nextWindowId, nextPaneId, name)
    /\ nextWindowId' = nextWindowId + 1
    /\ nextPaneId' = nextPaneId + 1
    /\ current_window' = name
    /\ pane_count' = PaneCountAfterNewWindow(pane_count)
    /\ ret' = WinId(nextWindowId)
    /\ exc' = "none"
    /\ history' = Append(history, "new_window")
    /\ streak' = IF Resolves(windows', name) THEN 0 ELSE -1
    /\ UNCHANGED <<session_exists, active, layout, pc, call, origin, killed, cliVars>>

\* add_pane, lines 165-170: the empty command is refused; otherwise the call
\* goes on to _ensure_window (a window was named) or to placing the pane.
add_pane(command, title, window) ==
    /\ pc = "idle"
    /\ Len(history) < MaxOps
    /\ history' = Append(history, "add_pane")
    /\ IF command = <<>>
         THEN /\ exc' = "ValueError"
              /\ streak' = -1
              /\ UNCHANGED <<pc, call>>
         ELSE /\ exc' = "none"
              /\ call' = [command |-> command, title |-> title, window |-> window]
              /\ pc' = IF window # None THEN "ensure_window" ELSE "place"
              /\ streak' = IF window # None /\ window # current_window THEN -1 ELSE streak
    /\ UNCHANGED <<tmuxVars, layout, current_window, pane_count, ret, origin, killed, cliVars>>

\* _ensure_window, lines 216-241, as called by add_pane at line 170
_ensure_window ==
    /\ pc = "ensure_window"
    /\ IF call.window \in WindowNameList(windows) /\ Resolves(windows, call.window)
         THEN \* select-window -t S:name
              /\ active' = TheWindow(windows, call.window)
              /\ current_window' = call.window
              /\ UNCHANGED <<windows, nextWindowId, nextPaneId, pane_count>>
         ELSE \* the name is not listed, or select-window failed and the
              \* ErrorReturnCode was passed over: new_window(window_name)
              /\ windows' = NewWindowAdded(windows, nextWindowId, nextPaneId, call.window)
              /\ nextWindowId' = nextWindowId + 1
              /\ nextPaneId' = nextPaneId + 1
              /\ current_window' = call.window
              /\ pane_count' = PaneCountAfterNewWindow(pane_count)
              /\ active' = active
    /\ pc' = "place"
    /\ streak' = IF current_window' # current_window THEN -1 ELSE streak
    /\ UNCHANGED <<session_exists, layout, call, ret, exc, origin, history, killed, cliVars>>

\* add_pane, lines 172-214
place_pane(layoutOk) ==
    /\ pc = "place"
    /\ pc' = "idle"
    /\ call' = NoCall
    /\ IF ~Resolves(windows, current_window)
         THEN \* respawn-pane / split-window cannot find the window
              /\ exc' = "ErrorReturnCode"
              /\ streak' = -1
              /\ UNCHANGED <<windows, nextPaneId, pane_count, ret, killed>>
         ELSE LET i == TheWindow(windows, current_window) IN
              IF FirstPane(pane_count)
                THEN LET pid == windows[i].panes[1].id IN
                     /\ windows' = IF call.title # None
                                     THEN Titled(Respawned(windows, i, call.command), pid, call.title)
                                     ELSE Respawned(windows, i, call.command)
                     /\ killed' = killed \cup {windows[i].panes[1].by}
                     /\ pane_count' = PaneCountAfterAdd(pane_count)
                     /\ ret' = pid
                     /\ exc' = "none"
                     /\ streak' = IF streak >= 0 THEN streak + 1 ELSE -1
                     /\ UNCHANGED nextPaneId
                ELSE LET pid == PaneId(nextPaneId)
                         split == Split(windows, i, nextPaneId, call.command)
                         laid == IF layoutOk THEN LaidOut(split, i, layout) ELSE split
                     IN
                     /\ nextPaneId' = nextPaneId + 1
                     /\ killed' = killed
                     /\ IF apply_layout_outcome(layoutOk) = "returned"
                          THEN /\ windows' = IF call.title # None
                                               THEN Titled(laid, pid, call.title)
                                               ELSE laid
                               /\ pane_count' = PaneCountAfterAdd(pane_count)
                               /\ ret' = pid
                               /\ exc' = "none"
                               /\ streak' = IF streak >= 0 THEN streak + 1 ELSE -1
                          ELSE /\ windows' = laid
                               /\ exc' = apply_layout_outcome(layoutOk)
                               /\ streak' = -1
                               /\ UNCHANGED <<pane_count, ret>>
    /\ UNCHANGED <<session_exists, active, nextWindowId, layout, current_window,
                   origin, history, cliVars>>

\* apply_layout(layout), lines 272-290, called by the user of the handle
apply_layout(lay, tmuxOk) ==
    /\ pc = "idle"
    /\ Len(history) < MaxOps
    /\ history' = Append(history, "apply_layout")
    /\ LET layout_to_use == IF lay # None THEN lay ELSE layout
           ok == tmuxOk /\ Resolves(windows, current_window)
       IN /\ windows' = IF ok THEN LaidOut(windows, TheWindow(windows, current_window), layout_to_use)
                              ELSE windows
          /\ exc' = IF apply_layout_outcome(ok) = "returned" THEN "none"
                                                             ELSE apply_layout_outcome(ok)
    /\ UNCHANGED <<session_exists, active, nextWindowId, nextPaneId, layout, current_window,
                   pane_count, pc, call, ret, origin, streak, killed, cliVars>>

\* __exit__, lines 295-303: apply_layout() once more, then return False, so an
\* exception leaving the with block goes on propagating.
__exit__(tmuxOk) ==
    /\ pc = "idle"
    /\ pc' = "exited"
    /\ LET ok == tmuxOk /\ Resolves(windows, current_window)
       IN /\ windows' = IF ok THEN LaidOut(windows, TheWindow(windows, current_window), layout)
                              ELSE windows
          /\ exc' = IF apply_layout_outcome(ok) = "returned" THEN exc
                                                             ELSE apply_layout_outcome(ok)
    /\ UNCHANGED <<session_exists, active, nextWindowId, nextPaneId, layout, current_window,
                   pane_count, call, ret, ghostVars, cliVars>>


(***************************************************************************)
(* tmux servers and list-sessions                                          *)
(***************************************************************************)
MaxSessions == 2     \* sessions of one server

ServerNames == {"s1", "s2"}

\* Session names as sequences of tokens, in the order list-sessions prints
\* them; the second one holds a space.
SessionNames == << <<"a">>, <<"a", " ", "b">>, <<"b">> >>

Down == [up |-> FALSE, sessions |-> <<>>]

\* The sessions picked by the index set I, those in A attached, in name order.
RECURSIVE SessionsFrom(_, _, _)
SessionsFrom(i, I, A) ==
    IF i > Len(SessionNames) THEN <<>>
    ELSE (IF i \in I THEN <<[name |-> SessionNames[i], attached |-> i \in A]>> ELSE <<>>)
         \o SessionsFrom(i + 1, I, A)

\* A running server holds at least one session.
ServerStates ==
    {Down} \cup
    {[up |-> TRUE, sessions |-> SessionsFrom(1, I, A)] :
        I \in {J \in SUBSET (1..Len(SessionNames)) : J # {} /\ Cardinality(J) <= MaxSessions},
        A \in SUBSET (1..Len(SessionNames))}

\* list_tmux, line 360: the -F format.  The double quotes are part of the
\* argument, so every line starts and ends with one; "(attached)" is the
\* #{?session_attached,(attached),} field.
FormatLine(sess) ==
    <<"\"", "1700000000", " ">> \o sess.name
    \o <<":", " ", "1", " ", "windows", " ", "(created", " ", "12", ":", "00)", " ", "host", " ">>
    \o (IF sess.attached THEN <<"(attached)">> ELSE <<>>)
    \o <<"\"">>

\* list_tmux, lines 362-365: the -f filter given to list-sessions
Filter(only_detached, only_attached) ==
    IF only_detached THEN "detached" ELSE IF only_attached THEN "attached" ELSE "none"

Matches(sess, filter) ==
    CASE filter = "detached" -> ~sess.attached
      [] filter = "attached" -> sess.attached
      [] OTHER -> TRUE

\* What list-sessions writes for the sessions ss: one line per matching
\* session, each ended by a newline.
RECURSIVE Stdout(_, _)
Stdout(ss, filter) ==
    IF ss = <<>> THEN <<>>
    ELSE (IF Matches(Head(ss), filter) THEN FormatLine(Head(ss)) \o <<"\n">> ELSE <<>>)
         \o Stdout(Tail(ss), filter)

\* str.strip()
Whitespace == {" ", "\n"}
RECURSIVE LStrip(_)
LStrip(str) == IF str # <<>> /\ Head(str) \in Whitespace THEN LStrip(Tail(str)) ELSE str
RECURSIVE RStrip(_)
RStrip(str) ==
    IF str # <<>> /\ str[Len(str)] \in Whitespace THEN RStrip(SubSeq(str, 1, Len(str) - 1)) ELSE str
Strip(str) == RStrip(LStrip(str))

\* str.split(sep): the empty string splits into one empty string
RECURSIVE SplitOn(_, _)
SplitOn(str, sep) ==
    IF \A k \in 1..Len(str) : str[k] # sep THEN <<str>>
    ELSE LET k == CHOOSE j \in 1..Len(str) :
                     str[j] = sep /\ \A h \in 1..(j - 1) : str[h] # sep
         IN <<SubSeq(str, 1, k - 1)>> \o SplitOn(SubSeq(str, k + 1, Len(str)), sep)

\* str.endswith("(attached)")
EndsWithAttached(line) == line # <<>> /\ line[Len(line)] = "(attached)"

\* asserttool.maxone as used at line 349: more than one true value is an error
MaxoneAcceptsAll(flags) == "ok"
maxone(flags) ==
    IF Cardinality({i \in 1..Len(flags) : flags[i]}) > 1 THEN "ValueError" ELSE "ok"

\* list_tmux, lines 341-371, run to the end of its body: the error it raises
\* (if any), the list-sessions invocations it made, and the lines it yields.
list_tmux(srvs, server_name, only_detached, only_attached) ==
    IF maxone(<<only_attached, only_detached>>) # "ok"
      THEN [err |-> "ValueError", calls |-> <<>>, lines |-> <<>>]
      ELSE LET filter == Filter(only_detached, only_attached)
               made == <<[server |-> server_name, filter |-> filter]>>
           IN IF ~srvs[server_name].up
                THEN [err |-> "ErrorReturnCode", calls |-> made, lines |-> <<>>]
                ELSE [err |-> "none", calls |-> made,
                      lines |-> SplitOn(Strip(Stdout(srvs[server_name].sessions, filter)), "\n")]

\* get_tmux_server_names, lines 393-397: the servers that run, in any order
RECURSIVE Orderings(_)
Orderings(S) ==
    IF S = {} THEN {<<>>}
    ELSE UNION {{<<x>> \o t : t \in Orderings(S \ {x})} : x \in S}

get_tmux_server_names(srvs) == Orderings({n \in ServerNames : srvs[n].up})

\* The server_names arguments of a command: distinct names, none to all
ServerTuples == UNION {Orderings(S) : S \in SUBSET ServerNames}

Reversed(seq) == [i \in 1..Len(seq) |-> seq[Len(seq) + 1 - i]]


(***************************************************************************)
(* The commands ls / list and attach, and list_tmux called directly        *)
(***************************************************************************)
NoCmd == [name |-> "none", server_names |-> <<>>, detached |-> FALSE, reverse |-> FALSE,
          simulate |-> FALSE, all_at_once |-> FALSE, ic_enabled |-> FALSE,
          stdin_eof |-> FALSE, iterator |-> <<>>]

NoGen == [state |-> "none", server_name |-> None, only_detached |-> FALSE,
          only_attached |-> FALSE, lines |-> <<>>, yielded |-> <<>>]

\* ls, line 541: the only_detached argument given to list_all_sessions
LsOnlyDetached(detached) == FALSE

\* attach, lines 607-611: the command built for one line
AttachCommand(server, line, all_at_once) ==
    LET first == SplitOn(line, ":")[1]
        words == SplitOn(first, " ")
    IN [server |-> server, target |-> words[Len(words)], xterm |-> all_at_once]

\* attach, line 606: the lines a command is built for
RECURSIVE AttachCommands(_, _, _)
AttachCommands(server, lines, all_at_once) ==
    IF lines = <<>> THEN <<>>
    ELSE (IF ~EndsWithAttached(Head(lines))
            THEN <<AttachCommand(server, Head(lines), all_at_once)>>
            ELSE <<>>)
         \o AttachCommands(server, Tail(lines), all_at_once)

\* attach, line 612
ShouldReport(ic_enabled) == ic_enabled

\* attach, line 614
ExecutesAlways(simulate) == TRUE
ShouldExecute(simulate) == ~simulate

RECURSIVE Pairs(_, _)
Pairs(server, lines) ==
    IF lines = <<>> THEN <<>> ELSE <<<<server, Head(lines)>>>> \o Pairs(server, Tail(lines))

\* ls (lines 518-548) and its alias list (lines 474-488), up to the loop
ls(name, server_names, detached, discovered) ==
    /\ cpc = "shell"
    /\ todo' = IF server_names # <<>> THEN server_names ELSE discovered
    /\ cmd' = [NoCmd EXCEPT !.name = name, !.server_names = server_names,
                            !.detached = detached, !.iterator = todo']
    /\ cpc' = "ls"
    /\ UNCHANGED <<servers, gen, tmux_calls, printed, reported, executed, exit_status,
                   tmuxVars, objVars, ghostVars>>

\* ls, lines 539-548 with list_all_sessions, lines 498-506: one server
ls_server ==
    /\ cpc = "ls"
    /\ todo # <<>>
    /\ LET server == Head(todo)
           r == list_tmux(servers, server, LsOnlyDetached(cmd.detached), FALSE)
       IN /\ tmux_calls' = tmux_calls \o r.calls
          /\ IF r.err # "none"
               THEN /\ cpc' = "done"
                    /\ exit_status' = 1
                    /\ UNCHANGED <<todo, printed>>
               ELSE /\ printed' = printed \o Pairs(server, r.lines)
                    /\ todo' = Tail(todo)
                    /\ UNCHANGED <<cpc, exit_status>>
    /\ UNCHANGED <<servers, cmd, gen, reported, executed, tmuxVars, objVars, ghostVars>>

\* attach, lines 566-595.  With --reverse the list is reversed and
\* input("press enter") reads a line: at end of input it raises EOFError and
\* the command ends there.
attach(server_names, reverse, simulate, all_at_once, ic_enabled, stdin_eof, discovered) ==
    /\ cpc = "shell"
    /\ LET iterator == IF server_names # <<>> THEN server_names ELSE discovered
       IN todo' = IF reverse THEN Reversed(iterator) ELSE iterator
    /\ cmd' = [NoCmd EXCEPT !.name = "attach", !.server_names = server_names,
                            !.reverse = reverse, !.simulate = simulate,
                            !.all_at_once = all_at_once, !.ic_enabled = ic_enabled,
                            !.stdin_eof = stdin_eof, !.iterator = todo']
    /\ IF reverse /\ stdin_eof
         THEN cpc' = "done" /\ exit_status' = 1
         ELSE cpc' = "attach" /\ UNCHANGED exit_status
    /\ UNCHANGED <<servers, gen, tmux_calls, printed, reported, executed,
                   tmuxVars, objVars, ghostVars>>

\* attach, lines 597-615: one server
attach_server ==
    /\ cpc = "attach"
    /\ todo # <<>>
    /\ LET server == Head(todo)
           r == list_tmux(servers, server, TRUE, FALSE)
           commands == AttachCommands(server, r.lines, cmd.all_at_once)
       IN /\ tmux_calls' = tmux_calls \o r.calls
          /\ IF r.err # "none"
               THEN /\ cpc' = "done"
                    /\ exit_status' = 1
                    /\ UNCHANGED <<todo, reported, executed>>
               ELSE /\ reported' = IF ShouldReport(cmd.ic_enabled) THEN reported \o commands
                                                                   ELSE reported
                    /\ executed' = IF ShouldExecute(cmd.simulate) THEN executed \o commands
                                                                  ELSE executed
                    /\ todo' = Tail(todo)
                    /\ UNCHANGED <<cpc, exit_status>>
    /\ UNCHANGED <<servers, cmd, gen, printed, tmuxVars, objVars, ghostVars>>

\* The loop of ls or attach has no server left: the command returns.
command_returns ==
    /\ cpc \in {"ls", "attach"}
    /\ todo = <<>>
    /\ cpc' = "done"
    /\ exit_status' = 0
    /\ UNCHANGED <<servers, cmd, todo, gen, tmux_calls, printed, reported, executed,
                   tmuxVars, objVars, ghostVars>>

\* list_tmux(...) called: a generator function, so nothing of its body runs yet
list_tmux_call(server_name, only_detached, only_attached) ==
    /\ cpc = "shell"
    /\ cpc' = "generator"
    /\ gen' = [NoGen EXCEPT !.state = "created", !.server_name = server_name,
                            !.only_detached = only_detached,
                            !.only_attached = only_attached]
    /\ UNCHANGED <<servers, cmd, todo, tmux_calls, printed, reported, executed, exit_status,
                   tmuxVars, objVars, ghostVars>>

\* next() on the generator: the first one runs the body down to the first
\* yield (lines 348-371), later ones go round the loop.
list_tmux_next ==
    /\ cpc = "generator"
    /\ gen.state \in {"created", "suspended"}
    /\ IF gen.state = "created"
         THEN LET r == list_tmux(servers, gen.server_name, gen.only_detached,
                                 gen.only_attached)
              IN /\ tmux_calls' = tmux_calls \o r.calls
                 /\ gen' = IF r.err # "none"
                             THEN [gen EXCEPT !.state = r.err]
                             ELSE [gen EXCEPT !.state = "suspended",
                                              !.yielded = <<Head(r.lines)>>,
                                              !.lines = Tail(r.lines)]
         ELSE /\ gen' = IF gen.lines = <<>>
                          THEN [gen EXCEPT !.state = "StopIteration"]
                          ELSE [gen EXCEPT !.yielded = Append(@, Head(gen.lines)),
                                           !.lines = Tail(@)]
              /\ UNCHANGED tmux_calls
    /\ UNCHANGED <<servers, cmd, todo, cpc, printed, reported, executed, exit_status,
                   tmuxVars, objVars, ghostVars>>

(***************************************************************************)
(* Specifications                                                          *)
(***************************************************************************)
ObjIdle ==
    /\ layout = None /\ current_window = None /\ pane_count = 0
    /\ call = NoCall /\ ret = None /\ exc = "none"
    /\ origin = "none" /\ history = <<>> /\ streak = -1 /\ killed = {}

CliIdle ==
    /\ cmd = NoCmd /\ todo = <<>> /\ gen = NoGen /\ tmux_calls = <<>>
    /\ printed = <<>> /\ reported = <<>> /\ executed = <<>> /\ exit_status = -1

\* Before MultiPaneSession(...): the session is absent, or somebody's session
\* of that name exists.
Init ==
    /\ \E pre \in PreSessions \cup {<<>>} :
         /\ windows = pre
         /\ session_exists = (pre # <<>>)
         /\ active \in (IF pre = <<>> THEN {0} ELSE 1..Len(pre))
         /\ nextWindowId = Len(pre)
         /\ nextPaneId = PaneTotal(pre)
    /\ pc = "new"
    /\ ObjIdle
    /\ servers = [n \in ServerNames |-> Down]
    /\ cpc = "off"
    /\ CliIdle

Next ==
    \/ \E force_new \in BOOLEAN, lay \in Layouts : __init__(force_new, lay)
    \/ \E name \in WindowNames : new_window(name)
    \/ \E command \in Commands, title \in Titles, window \in WindowNames \cup {None} :
         add_pane(command, title, window)
    \/ _ensure_window
    \/ \E layoutOk \in BOOLEAN : place_pane(layoutOk)
    \/ \E lay \in Layouts \cup {None}, tmuxOk \in BOOLEAN : apply_layout(lay, tmuxOk)
    \/ \E tmuxOk \in BOOLEAN : __exit__(tmuxOk)

Spec == Init /\ [][Next]_vars

\* A shell with some tmux servers running, before a command is given.
InitCli ==
    /\ servers \in [ServerNames -> ServerStates]
    /\ cpc = "shell"
    /\ CliIdle
    /\ session_exists = FALSE /\ windows = <<>> /\ active = 0
    /\ nextWindowId = 0 /\ nextPaneId = 0
    /\ pc = "off"
    /\ ObjIdle

NextCli ==
    \/ \E name \in {"ls", "list"}, server_names \in ServerTuples, detached \in BOOLEAN,
          discovered \in get_tmux_server_names(servers) :
         ls(name, server_names, detached, discovered)
    \/ ls_server
    \/ \E server_names \in ServerTuples, reverse \in BOOLEAN, simulate \in BOOLEAN,
          all_at_once \in BOOLEAN, ic_enabled \in BOOLEAN, stdin_eof \in BOOLEAN,
          discovered \in get_tmux_server_names(servers) :
         attach(server_names, reverse, simulate, all_at_once, ic_enabled, stdin_eof,
                discovered)
    \/ attach_server
    \/ command_returns
    \/ \E server_name \in ServerNames, only_detached \in BOOLEAN, only_attached \in BOOLEAN :
         list_tmux_call(server_name, only_detached, only_attached)
    \/ list_tmux_next

SpecCli == InitCli /\ [][NextCli]_vars


(***************************************************************************)
(* Properties                                                              *)
(***************************************************************************)
Range(seq) == {seq[k] : k \in 1..Len(seq)}

CurrentPanes == windows[TheWindow(windows, current_window)].panes

OnceAdded == pc = "idle" /\ history = <<"add_pane">> /\ exc = "none"

\* C1, as claimed: after exactly one add_pane on a freshly constructed handle
\* the current window holds exactly one pane, however the constructor
\* obtained the session (created, killed and recreated, or reused).
C1_OnePaneAfterFirstAdd ==
    OnceAdded => Resolves(windows, current_window) /\ Len(CurrentPanes) = 1

\* C1, amended: after exactly one add_pane on a handle whose constructor
\* created the session (it did not exist, or force_new killed and recreated
\* it), the current window holds exactly one pane, and it runs the command
\* given to add_pane: the placeholder was replaced, not duplicated.
C1_OnePaneAfterFirstAddOnCreatedSession ==
    (OnceAdded /\ origin \in {"created", "recreated"}) =>
        /\ Resolves(windows, current_window)
        /\ Len(CurrentPanes) = 1
        /\ CurrentPanes[1].by = "add_pane"

C1_Witness ==
    /\ OnceAdded
    /\ origin = "recreated"
    /\ Len(CurrentPanes) = 1
    /\ CurrentPanes[1].command = <<"echo", "hi">>

\* C2: after N > 1 add_pane calls in a row on the same current window, which
\* held only its placeholder before the first of them, that window holds
\* exactly N panes and pane_count is N.
C2_PanesEqualCalls ==
    (pc = "idle" /\ streak > 1) =>
        /\ pane_count = streak
        /\ Resolves(windows, current_window)
        /\ Len(CurrentPanes) = streak

C2_Witness ==
    /\ pc = "idle"
    /\ streak = 3
    /\ Len(CurrentPanes) = 3
    /\ \A k \in 1..3 : CurrentPanes[k].by = "add_pane"

\* C3, as claimed: after any sequence of new_window and add_pane calls no
\* window holds both a placeholder process and a command given to add_pane.
C3_NoPlaceholderBesideCommand ==
    \A i \in 1..Len(windows) :
        ~ (/\ \E j \in 1..Len(windows[i].panes) : windows[i].panes[j].by = "placeholder"
           /\ \E j \in 1..Len(windows[i].panes) : windows[i].panes[j].by = "add_pane")

\* C4, as claimed: every step that changes current_window leaves pane_count 0.
C4_CountResetOnWindowChange ==
    [][current_window' # current_window => pane_count' = 0]_vars

\* C6: apply_layout returns normally whether or not select-layout succeeds:
\* an add_pane whose split-window made a pane increments pane_count, returns
\* the new pane's id and raises nothing; apply_layout called directly raises
\* nothing; and __exit__ leaves the exception in flight (or none) as it was.
C6_ApplyLayoutNeverRaises ==
    [][/\ (pc = "place" /\ nextPaneId' # nextPaneId) =>
            /\ pane_count' = pane_count + 1
            /\ ret' = PaneId(nextPaneId)
            /\ exc' = "none"
       /\ (history' # history /\ history'[Len(history')] = "apply_layout") => exc' = "none"
       /\ (pc' = "exited") => exc' = exc]_vars

\* A second pane was split off and counted although select-layout failed (the
\* window still has the layout it was created with).
C6_Witness ==
    /\ pc = "idle"
    /\ origin = "created"
    /\ exc = "none"
    /\ pane_count = 2
    /\ Resolves(windows, current_window)
    /\ Len(CurrentPanes) = 2
    /\ CurrentPanes[2].id = ret
    /\ windows[TheWindow(windows, current_window)].layout = "default"

\* C8, as claimed: add_pane's respawn-pane -k only ever kills a placeholder
\* started by this handle.
C8_OnlyPlaceholdersKilled == killed \subseteq {"placeholder"}

\* C5: list_tmux with only_detached and only_attached both set raises the
\* usage error as soon as its body runs, and no list-sessions is invoked.
C5_UsageErrorBeforeTmux ==
    (gen.state # "none" /\ gen.only_detached /\ gen.only_attached) =>
        /\ tmux_calls = <<>>
        /\ gen.state \in {"created", "ValueError"}
        /\ gen.yielded = <<>>

C5_Witness ==
    /\ gen.state = "ValueError"
    /\ gen.only_detached /\ gen.only_attached
    /\ servers[gen.server_name].up
    /\ tmux_calls = <<>>

DetachedSessions(server) ==
    {sess \in Range(servers[server].sessions) : ~sess.attached}

\* The command attach builds for a session, from the line list-sessions
\* prints for it.
WouldBe(server, sess) == AttachCommand(server, FormatLine(sess), cmd.all_at_once)

AllReported ==
    \A server \in Range(cmd.iterator) : \A sess \in DetachedSessions(server) :
        WouldBe(server, sess) \in Range(reported)

RECURSIVE ExpectedFor(_, _, _)
ExpectedFor(server, ss, all_at_once) ==
    IF ss = <<>> THEN <<>>
    ELSE (IF ~Head(ss).attached
            THEN <<[server |-> server, target |-> Head(ss).name, xterm |-> all_at_once]>>
            ELSE <<>>)
         \o ExpectedFor(server, Tail(ss), all_at_once)

RECURSIVE Expected(_)
Expected(iterator) ==
    IF iterator = <<>> THEN <<>>
    ELSE ExpectedFor(Head(iterator), servers[Head(iterator)].sessions, cmd.all_at_once)
         \o Expected(Tail(iterator))

\* C9, as claimed: attach without --simulate executes exactly one attach
\* command per detached session of each target server, targeting that
\* session's name, none for an attached session and none for a server without
\* detached sessions.
C9_OneAttachPerDetachedSession ==
    (cpc = "done" /\ cmd.name = "attach" /\ ~cmd.simulate /\ exit_status = 0) =>
        executed = Expected(cmd.iterator)

\* C10, as claimed: with --detached, ls / list prints no line of an attached
\* session.
C10_DetachedPrintsNoAttached ==
    (cmd.name \in {"ls", "list"} /\ cmd.detached) =>
        \A k \in 1..Len(printed) : "(attached)" \notin Range(printed[k][2])

====
